---------------------------- MODULE Spec2Model ----------------------------
(***************************************************************************)
(* A model of the CI reporting pipeline of flask-login-ci-confluence:      *)
(*   generate_report.py            (version store, report scanner)         *)
(*   publish_report_confluence.py  (publish client)                        *)
(*   send_report_email.py          (notifier)                              *)
(*   app/app.py                    (the login app the pipeline tests)      *)
(* The three scripts share the artifact directory "report"; the wiki and   *)
(* the mail transport are external collaborators whose answers are drawn   *)
(* nondeterministically.                                                   *)
(***************************************************************************)
EXTENDS Integers, Sequences, FiniteSets, TLC

VARIABLES
    versionFile,   \* report/version.txt: [exists, text], text a sequence of characters
    genRead,       \* generate_report: what read_version() returned inside the last increment_version()
    genOut,        \* generate_report: the versions increment_version() returned, oldest first
    pubVersion,    \* publish_report_confluence: outcome of read_version()
    mailVersion,   \* send_report_email: outcome of detect_version()
    pytestLog,     \* report/pytest_output.txt: [exists, text], text a sequence of tokens
    secFiles,      \* the scanner reports, file name -> [exists, text]
    reportDir,     \* the generated artifacts present in report/ (a set of file names)
    scanPc,        \* the pipeline stage that reads the reports next
    summary,       \* generate_report: the dict extract_summary() returned
    htmlStatus,    \* generate_report: the PASS/FAIL badge generate_html() rendered
    testSummary,   \* publish_report_confluence: what extract_test_summary() returned
    mailStatus,    \* send_report_email: what detect_status() returned
    mailPc,        \* send_report_email: position in __main__
    mailFiles,     \* send_report_email: files_to_attach
    mailLink,      \* send_report_email: confluence_link (page, or the space home fallback)
    mailComposed,  \* send_report_email: whether msg has been built
    smtpCalls,     \* the calls made on the mail transport, oldest first
    mailSent,      \* whether the transport accepted the message
    mailLog,       \* send_report_email: the lines printed
    mailExit,      \* send_report_email: exit code, -1 while running
    pages,         \* the wiki: the pages of the space, page id -> [title, number, body]
    attachments,   \* the wiki: the attachments, a set of [page, name, data]
    wikiCalls,     \* the requests sent to the wiki, oldest first
    wikiFaults,    \* the requests that met an error status or no connection so far
    pubPc,         \* publish_report_confluence: position in __main__
    pubRuns,       \* publish_report_confluence: per invocation, its version, page_id,
                   \* uncaught exception, faults met and files handed to upload_attachment
    current_version, \* publish_report_confluence: update_confluence_page's local
    pubLog,        \* publish_report_confluence: the lines printed
    session,       \* app: the browser's session, [user, permanent]
    request,       \* app: the request handled last
    response,      \* app: the response to it
    securitySummary \* publish_report_confluence: what extract_security_summary() returned

versionVars == <<genRead, genOut, pubVersion, mailVersion>>

scanVars == <<scanPc, summary, htmlStatus, testSummary, mailStatus>>

fsVars == <<versionFile, pytestLog, secFiles, reportDir>>

mailVars == <<mailPc, mailFiles, mailLink, mailComposed, smtpCalls, mailSent, mailLog, mailExit>>

pubVars == <<pages, attachments, wikiCalls, wikiFaults, pubPc, pubRuns, current_version, pubLog>>

appVars == <<session, request, response>>

vars == <<fsVars, versionVars, scanVars, mailVars, pubVars, appVars, securitySummary>>

(***************************************************************************)
(* Bounds of the model.                                                    *)
(***************************************************************************)
MaxTextLen == 2     \* longest initial content of version.txt, in characters
MaxGenRuns == 3     \* generator invocations in one behaviour
MaxLogLen == 3      \* longest free-form pytest log, in tokens
MaxSecLen == 1      \* longest scanner report, in tokens
MaxPubRuns == 3     \* publisher invocations in one behaviour
MaxFaults == 1      \* wiki requests that fail in one behaviour
MaxFindings == 5    \* most findings of one severity in a scanner report

(***************************************************************************)
(* Text: a sequence of one-character strings.                              *)
(***************************************************************************)
Digits == <<"0", "1", "2", "3", "4", "5", "6", "7", "8", "9">>

DigitChars == {Digits[i] : i \in 1..10}

IsDigit(c) == c \in DigitChars

DigitVal(c) == (CHOOSE i \in 1..10 : Digits[i] = c) - 1

IsSpace(c) == c = " "

\* The characters the initial content of version.txt is drawn from.
VersionChars == {"1", "9", " ", "x", "-"}

RECURSIVE SeqsUpTo(_, _)
SeqsUpTo(S, n) ==
    IF n = 0 THEN {<<>>}
    ELSE LET shorter == SeqsUpTo(S, n - 1)
         IN  shorter \cup {Append(s, c) : s \in {t \in shorter : Len(t) = n - 1}, c \in S}

\* str.strip(): drop leading and trailing whitespace.
RECURSIVE LStrip(_)
LStrip(s) == IF s # <<>> /\ IsSpace(Head(s)) THEN LStrip(Tail(s)) ELSE s

RECURSIVE RStrip(_)
RStrip(s) ==
    IF s # <<>> /\ IsSpace(s[Len(s)]) THEN RStrip(SubSeq(s, 1, Len(s) - 1)) ELSE s

Strip(s) == RStrip(LStrip(s))

RECURSIVE DigitsVal(_)
DigitsVal(s) ==
    IF s = <<>> THEN 0
    ELSE 10 * DigitsVal(SubSeq(s, 1, Len(s) - 1)) + DigitVal(s[Len(s)])

AllDigits(s) == s # <<>> /\ \A i \in 1..Len(s) : IsDigit(s[i])

\* int(text): surrounding whitespace is ignored, then an optional sign and at
\* least one digit; anything else is a ValueError (ok = FALSE).
ParseInt(text) ==
    LET s    == Strip(text)
        neg  == s # <<>> /\ Head(s) = "-"
        sgn  == s # <<>> /\ Head(s) \in {"-", "+"}
        body == IF sgn THEN Tail(s) ELSE s
    IN  IF AllDigits(body)
        THEN [ok |-> TRUE, val |-> IF neg THEN 0 - DigitsVal(body) ELSE DigitsVal(body)]
        ELSE [ok |-> FALSE, val |-> 0]

\* str(n) of an integer.
RECURSIVE NatStr(_)
NatStr(n) == IF n < 10 THEN <<Digits[n + 1]>> ELSE Append(NatStr(n \div 10), Digits[(n % 10) + 1])

ToStr(n) == IF n < 0 THEN <<"-">> \o NatStr(0 - n) ELSE NatStr(n)

Absent == [exists |-> FALSE, text |-> <<>>]

File(text) == [exists |-> TRUE, text |-> text]

(***************************************************************************)
(* Version store.                                                          *)
(***************************************************************************)
\* generate_report.read_version(): the persisted integer, 1 when the file is
\* absent or int() raises ValueError.
GenReadVersion(f) ==
    IF f.exists
    THEN IF ParseInt(f.text).ok THEN ParseInt(f.text).val ELSE 1
    ELSE 1

\* publish_report_confluence.read_version(): int() is not guarded, so a
\* malformed file raises ValueError out of the function.
PubReadVersion(f) ==
    IF f.exists
    THEN IF ParseInt(f.text).ok
         THEN [kind |-> "int", n |-> ParseInt(f.text).val]
         ELSE [kind |-> "ValueError", n |-> 0]
    ELSE [kind |-> "int", n |-> 1]

\* send_report_email.detect_version(): the stripped text of the file, or the
\* text N/A when the file is absent.
DetectVersion(f) == IF f.exists THEN Strip(f.text) ELSE <<"N", "/", "A">>

\* (a variant that returns the new version without writing it back)
IncrementVersion_NoPersist ==
    /\ Len(genOut) < MaxGenRuns
    /\ genRead' = GenReadVersion(versionFile)
    /\ genOut' = Append(genOut, GenReadVersion(versionFile) + 1)
    /\ UNCHANGED <<securitySummary, appVars, versionFile, pubVersion, mailVersion, pytestLog, secFiles, reportDir, scanVars, mailVars, pubVars>>

\* generate_report.increment_version()
IncrementVersion ==
    /\ Len(genOut) < MaxGenRuns
    /\ LET version == GenReadVersion(versionFile) + 1
       IN  /\ genRead' = GenReadVersion(versionFile)
           /\ versionFile' = File(ToStr(version))
           /\ genOut' = Append(genOut, version)
    /\ UNCHANGED <<securitySummary, appVars, pubVersion, mailVersion, pytestLog, secFiles, reportDir, scanVars, mailVars, pubVars>>

\* publish_report_confluence: version = read_version()
PubReadVersionCall ==
    /\ pubVersion' = PubReadVersion(versionFile)
    /\ UNCHANGED <<securitySummary, appVars, fsVars, genRead, genOut, mailVersion, scanVars, mailVars, pubVars>>

\* send_report_email: version = detect_version()
DetectVersionCall ==
    /\ mailVersion' = [kind |-> "str", s |-> DetectVersion(versionFile)]
    /\ UNCHANGED <<securitySummary, appVars, fsVars, genRead, genOut, pubVersion, scanVars, mailVars, pubVars>>

(***************************************************************************)
(* Report scanner.  A report is read as a sequence of whitespace-separated *)
(* tokens: a number (a run of digits) or a word.  The patterns of the      *)
(* scripts are matched on the tokens: (\d+)\s+passed matches a number      *)
(* token followed by a word token that begins with passed.                 *)
(***************************************************************************)
Num(n) == [k |-> "num", n |-> n, w |-> ""]

Word(w) == [k |-> "word", n |-> 0, w |-> w]

\* The counts and the words free-form logs and summary lines are built from.
LogCounts == {0, 1, 2, 12}

LogWords == {"passed", "failed", "error", "errors", "skipped", "PASSED", "FAILED", "in"}

LogTokens == {Num(n) : n \in LogCounts} \cup {Word(w) : w \in LogWords}

\* A pytest summary line: "a passed, b failed, c errors, d skipped".
SummaryLine(a, b, c, d) ==
    <<Num(a), Word("passed"), Num(b), Word("failed"),
      Num(c), Word("errors"), Num(d), Word("skipped")>>

ScenarioLog == SummaryLine(12, 1, 0, 2)

\* str.lower() of a word.
Lower(w) ==
    CASE w = "PASSED" -> "passed"
      [] w = "FAILED" -> "failed"
      [] w \in {"Critical", "CRITICAL"} -> "critical"
      [] w \in {"High", "HIGH"} -> "high"
      [] OTHER -> w

\* Whether the pattern kw (passed, failed, errors?, skipped) matches at the
\* start of the word w; ic is the flag re.I.
WordMatches(w, kw, ic) ==
    LET x == IF ic THEN Lower(w) ELSE w
    IN  IF kw = "errors?" THEN x \in {"error", "errors"} ELSE x = kw

\* Whether (\d+)\s+kw matches at token i of text.
MatchAt(text, i, kw, ic) ==
    /\ i + 1 <= Len(text)
    /\ text[i].k = "num"
    /\ text[i + 1].k = "word"
    /\ WordMatches(text[i + 1].w, kw, ic)

\* re.findall(r"(\d+)\s+kw", text): the numbers of all matches, in order.
RECURSIVE FindAllFrom(_, _, _, _)
FindAllFrom(text, i, kw, ic) ==
    IF i > Len(text) THEN <<>>
    ELSE IF MatchAt(text, i, kw, ic)
         THEN <<text[i].n>> \o FindAllFrom(text, i + 2, kw, ic)
         ELSE FindAllFrom(text, i + 1, kw, ic)

FindAll(text, kw, ic) == FindAllFrom(text, 1, kw, ic)

\* int(m[0]) if m else 0
FirstOrZero(m) == IF m # <<>> THEN m[1] ELSE 0

\* len(re.findall(marker, text)) for a marker that is one token.
RECURSIVE CountToken(_, _)
CountToken(text, marker) ==
    IF text = <<>> THEN 0
    ELSE (IF Head(text) = marker THEN 1 ELSE 0) + CountToken(Tail(text), marker)

\* safe_read(file_path): the text of the file, the empty text when absent.
SafeRead(f) == IF f.exists THEN f.text ELSE <<>>

\* (a variant that cuts the rate off after the first decimal)
Rate_Truncated(passed, total) == IF total # 0 THEN (1000 * passed) \div total ELSE 0

\* round(x, 1) and format(x, ".1f") of x = passed / total * 100, in tenths of
\* a percent (80.0 is 800): the nearest tenth, an exact tie going to the even
\* tenth.
Rate(passed, total) ==
    IF total # 0
    THEN LET q == (1000 * passed) \div total
             r == (1000 * passed) % total
         IN  IF 2 * r > total THEN q + 1
             ELSE IF 2 * r = total THEN q + (q % 2)
             ELSE q
    ELSE 0

\* The scanner reports and the marker counted in each by generate_report.
SecNames == {"bandit_report.html", "dependency_vuln.txt", "trivy_report.txt", "zap_dast_report.html"}

SecTokens == {"<tr class=issue>", "|", "High"}

\* A name in report/: base name, version suffix (0 when it has none), extension.
ReportName(version, ext) == [base |-> "test_result_report", v |-> version, ext |-> ext]

EmptySummary ==
    [passed |-> 0, failed |-> 0, errors |-> 0, skipped |-> 0, rate |-> 0,
     bandit_findings |-> 0, dep_vuln |-> 0, trivy_high |-> 0, zap_high |-> 0]

\* (a variant that counts the Trivy findings in the ZAP report)
ExtractSummaryOf_CrossRead(log, sec) ==
    LET pytest_log == SafeRead(log)
        passed  == FirstOrZero(FindAll(pytest_log, "passed", FALSE))
        failed  == FirstOrZero(FindAll(pytest_log, "failed", FALSE))
        errors  == FirstOrZero(FindAll(pytest_log, "errors?", FALSE))
        skipped == FirstOrZero(FindAll(pytest_log, "skipped", FALSE))
        total   == passed + failed + errors + skipped
    IN  [passed |-> passed, failed |-> failed, errors |-> errors, skipped |-> skipped,
         rate |-> Rate(passed, total),
         bandit_findings |-> CountToken(SafeRead(sec["bandit_report.html"]), "<tr class=issue>"),
         dep_vuln        |-> CountToken(SafeRead(sec["dependency_vuln.txt"]), "|"),
         trivy_high      |-> CountToken(SafeRead(sec["zap_dast_report.html"]), "High"),
         zap_high        |-> CountToken(SafeRead(sec["zap_dast_report.html"]), "High")]

\* generate_report.extract_summary()
ExtractSummaryOf(log, sec) ==
    LET pytest_log == SafeRead(log)
        passed  == FirstOrZero(FindAll(pytest_log, "passed", FALSE))
        failed  == FirstOrZero(FindAll(pytest_log, "failed", FALSE))
        errors  == FirstOrZero(FindAll(pytest_log, "errors?", FALSE))
        skipped == FirstOrZero(FindAll(pytest_log, "skipped", FALSE))
        total   == passed + failed + errors + skipped
        tests   == IF pytest_log # <<>>
                   THEN [passed |-> passed, failed |-> failed, errors |-> errors,
                         skipped |-> skipped, rate |-> Rate(passed, total)]
                   ELSE [passed |-> 0, failed |-> 0, errors |-> 0, skipped |-> 0, rate |-> 0]
    IN  [passed |-> tests.passed, failed |-> tests.failed, errors |-> tests.errors,
         skipped |-> tests.skipped, rate |-> tests.rate,
         bandit_findings |-> CountToken(SafeRead(sec["bandit_report.html"]), "<tr class=issue>"),
         dep_vuln        |-> CountToken(SafeRead(sec["dependency_vuln.txt"]), "|"),
         trivy_high      |-> CountToken(SafeRead(sec["trivy_report.txt"]), "High"),
         zap_high        |-> CountToken(SafeRead(sec["zap_dast_report.html"]), "High")]

ExtractSummary ==
    /\ scanPc = "extract"
    /\ summary' = ExtractSummaryOf(pytestLog, secFiles)
    /\ scanPc' = "render"
    /\ UNCHANGED <<securitySummary, appVars, fsVars, versionVars, htmlStatus, testSummary, mailStatus, mailVars, pubVars>>

\* The status rule of generate_html and extract_test_summary.
StatusOf(failed, errors) == IF failed = 0 /\ errors = 0 THEN "PASS" ELSE "FAIL"

\* generate_report.generate_html(summary, version), called with the version
\* increment_version() has just persisted; it writes
\* test_result_report_v<version>.html.
GenerateHtml ==
    /\ scanPc = "render"
    /\ htmlStatus' = StatusOf(summary.failed, summary.errors)
    /\ reportDir' = reportDir \cup {ReportName(GenReadVersion(versionFile), "html")}
    /\ scanPc' = "publish"
    /\ UNCHANGED <<securitySummary, appVars, versionFile, pytestLog, secFiles, versionVars, summary, testSummary, mailStatus, mailVars, pubVars>>

\* publish_report_confluence.extract_test_summary(): the counters and the rate
\* of the returned text, and the returned status.
ExtractTestSummaryOf(log) ==
    LET text    == SafeRead(log)
        passed  == FirstOrZero(FindAll(text, "passed", TRUE))
        failed  == FirstOrZero(FindAll(text, "failed", TRUE))
        errors  == FirstOrZero(FindAll(text, "errors?", TRUE))
        skipped == FirstOrZero(FindAll(text, "skipped", TRUE))
        total   == passed + failed + errors + skipped
    IN  [passed |-> passed, failed |-> failed, errors |-> errors, skipped |-> skipped,
         rate |-> Rate(passed, total), status |-> StatusOf(failed, errors)]

ExtractTestSummary ==
    /\ scanPc = "publish"
    /\ testSummary' = ExtractTestSummaryOf(pytestLog)
    /\ scanPc' = "notify"
    /\ UNCHANGED <<securitySummary, appVars, fsVars, versionVars, summary, htmlStatus, mailStatus, mailVars, pubVars>>

\* send_report_email.detect_status(): FAIL when the lower-cased log contains
\* the text failed, PASS when it does not, UNKNOWN without a log.
DetectStatusOf(log) ==
    IF log.exists
    THEN IF \E i \in 1..Len(log.text) :
               log.text[i].k = "word" /\ Lower(log.text[i].w) = "failed"
         THEN "FAIL"
         ELSE "PASS"
    ELSE "UNKNOWN"

DetectStatus ==
    /\ scanPc = "notify"
    /\ mailStatus' = DetectStatusOf(pytestLog)
    /\ scanPc' = "done"
    /\ UNCHANGED <<securitySummary, appVars, fsVars, versionVars, summary, htmlStatus, testSummary, mailVars, pubVars>>

\* The scanner reports publish_report_confluence.py reads.
PubSecNames ==
    {"bandit_report.html", "dependency_vuln.txt", "trivy_report.html", "zap_dast_report.html"}

\* safe_read(os.path.join(REPORT_DIR, name)): the empty text for a file that
\* is not in the directory.
ReadSec(files, name) == IF name \in DOMAIN files THEN SafeRead(files[name]) ELSE <<>>

\* len(re.findall(kw, text)), or with re.I when ic, on a text of words.
RECURSIVE CountWord(_, _, _)
CountWord(text, kw, ic) ==
    IF text = <<>> THEN 0
    ELSE (IF (IF ic THEN Lower(Head(text)) = Lower(kw) ELSE Head(text) = kw) THEN 1 ELSE 0)
         + CountWord(Tail(text), kw, ic)

\* The values of the summary dict: an int, or a str as a sequence of tokens.
IntValue(n) == [isstr |-> FALSE, text |-> <<Num(n)>>]

StrValue(text) == [isstr |-> TRUE, text |-> text]

NotAvailable == StrValue(<<Word("N/A")>>)

\* f"{a} {first} / {b} {second}"
CountsLine(a, first, b, second) ==
    StrValue(<<Num(a), Word(first), Word("/"), Num(b), Word(second)>>)

IsNum(t) == t.k = "num"

\* The loop body of lines 96-101: for a str value that contains High, the
\* first integer of the part before the first High; 0 when there is none.
HighOf(value) ==
    IF value.isstr /\ \E i \in 1..Len(value.text) : value.text[i] = Word("High")
    THEN LET k == CHOOSE i \in 1..Len(value.text) :
                     /\ value.text[i] = Word("High")
                     /\ \A j \in 1..(i - 1) : value.text[j] # Word("High")
             nums == SelectSeq(SubSeq(value.text, 1, k - 1), IsNum)
         IN  IF nums = <<>> THEN 0 ELSE nums[1].n
    ELSE 0

\* The risk badge of lines 103-108.
RiskLevel(total_high) ==
    IF total_high = 0 THEN "Low" ELSE IF total_high < 5 THEN "Medium" ELSE "High"

\* publish_report_confluence.extract_security_summary()
ExtractSecuritySummaryOf(files) ==
    LET bandit_html == ReadSec(files, "bandit_report.html")
        safety_txt  == ReadSec(files, "dependency_vuln.txt")
        trivy_html  == ReadSec(files, "trivy_report.html")
        zap_html    == ReadSec(files, "zap_dast_report.html")
        SAST_Bandit == IF bandit_html # <<>>
                       THEN IntValue(CountToken(bandit_html, "<tr class=issue>"))
                       ELSE NotAvailable
        Dependency_Safety == IF safety_txt # <<>>
                             THEN IntValue(CountToken(safety_txt, "|"))
                             ELSE NotAvailable
        Container_Trivy == IF trivy_html # <<>>
                           THEN CountsLine(CountWord(trivy_html, "Critical", TRUE), "Critical",
                                           CountWord(trivy_html, "High", TRUE), "High")
                           ELSE NotAvailable
        DAST_ZAP == IF zap_html # <<>>
                    THEN CountsLine(CountWord(zap_html, "High", FALSE), "High",
                                    CountWord(zap_html, "Medium", FALSE), "Medium")
                    ELSE NotAvailable
        total_high == HighOf(SAST_Bandit) + HighOf(Dependency_Safety)
                      + HighOf(Container_Trivy) + HighOf(DAST_ZAP)
    IN  [SAST_Bandit |-> SAST_Bandit, Dependency_Safety |-> Dependency_Safety,
         Container_Trivy |-> Container_Trivy, DAST_ZAP |-> DAST_ZAP,
         Risk_Level |-> RiskLevel(total_high)]

NoSecuritySummary ==
    [SAST_Bandit |-> NotAvailable, Dependency_Safety |-> NotAvailable,
     Container_Trivy |-> NotAvailable, DAST_ZAP |-> NotAvailable, Risk_Level |-> "none"]

ExtractSecuritySummary ==
    /\ securitySummary = NoSecuritySummary
    /\ securitySummary' = ExtractSecuritySummaryOf(secFiles)
    /\ UNCHANGED <<appVars, fsVars, versionVars, scanVars, mailVars, pubVars>>

NoTestSummary ==
    [passed |-> 0, failed |-> 0, errors |-> 0, skipped |-> 0, rate |-> 0, status |-> "none"]

ScanIdle ==
    /\ scanPc = "extract"
    /\ summary = EmptySummary
    /\ htmlStatus = "none"
    /\ testSummary = NoTestSummary
    /\ mailStatus = "none"
    /\ securitySummary = NoSecuritySummary

(***************************************************************************)
(* Notifier (send_report_email.py).                                        *)
(***************************************************************************)
FixedName(base, ext) == [base |-> base, v |-> 0, ext |-> ext]

\* The names get_report_files() globs for that are not versioned reports.
VersionTxt == FixedName("version", "txt")

PytestOutput == FixedName("pytest_output", "txt")

SecName(f) ==
    CASE f = "bandit_report.html" -> FixedName("bandit_report", "html")
      [] f = "dependency_vuln.txt" -> FixedName("dependency_vuln", "txt")
      [] f = "trivy_report.txt" -> FixedName("trivy_report", "txt")
      [] f = "zap_dast_report.html" -> FixedName("zap_dast_report", "html")

\* os.listdir(report): every file of the artifact directory.
ListDir ==
    reportDir
    \cup (IF versionFile.exists THEN {VersionTxt} ELSE {})
    \cup (IF pytestLog.exists THEN {PytestOutput} ELSE {})
    \cup {SecName(f) : f \in {g \in SecNames : secFiles[g].exists}}

\* Whether a name matches one of the patterns of get_report_files().
MatchesPattern(name) ==
    \/ name \in {SecName(f) : f \in SecNames}
    \/ name = FixedName("report", "html")
    \/ name = VersionTxt
    \/ name.base = "test_result_report" /\ name.ext \in {"html", "pdf"}

\* send_report_email.get_report_files()
GetReportFiles == {name \in ListDir : MatchesPattern(name)}

\* __main__, lines 110-112: detect_version(), detect_status(), get_report_files()
MailStart ==
    /\ mailPc = "start"
    /\ mailVersion' = [kind |-> "str", s |-> DetectVersion(versionFile)]
    /\ mailStatus' = DetectStatusOf(pytestLog)
    /\ mailFiles' = GetReportFiles
    /\ mailPc' = "link"
    /\ UNCHANGED <<securitySummary, appVars, fsVars, genRead, genOut, pubVersion, scanPc, summary, htmlStatus,
                   testSummary, mailLink, mailComposed, smtpCalls, mailSent, mailLog,
                   mailExit, pubVars>>

\* get_latest_confluence_page_link(version, status): the search answers with a
\* page, with no page or a bad status, or the request raises; every outcome
\* is handled inside the function.
MailFetchLink ==
    /\ mailPc = "link"
    /\ \E answer \in {"page", "no page", "exception"} :
          /\ mailLink' = IF answer = "page" THEN "page" ELSE "space home"
          /\ mailLog' = Append(mailLog,
                CASE answer = "page" -> "Found Confluence page link"
                  [] answer = "no page" -> "No matching Confluence page found"
                  [] answer = "exception" -> "Confluence link fetch failed")
    /\ mailPc' = "check"
    /\ UNCHANGED <<securitySummary, appVars, fsVars, versionVars, scanVars, mailFiles, mailComposed, smtpCalls,
                   mailSent, mailExit, pubVars>>

\* (a variant that goes on to compose without looking at files_to_attach)
MailCheckFiles_NoExit ==
    /\ mailPc = "check"
    /\ mailPc' = "compose"
    /\ UNCHANGED <<securitySummary, appVars, fsVars, versionVars, scanVars, mailFiles, mailLink, mailComposed,
                   smtpCalls, mailSent, mailLog, mailExit, pubVars>>

\* if not files_to_attach: print(...); exit(1)
MailCheckFiles ==
    /\ mailPc = "check"
    /\ IF mailFiles = {}
       THEN /\ mailLog' = Append(mailLog, "No report files found to attach")
            /\ mailExit' = 1
            /\ mailPc' = "exited"
       ELSE /\ mailPc' = "compose"
            /\ UNCHANGED <<mailLog, mailExit>>
    /\ UNCHANGED <<securitySummary, appVars, fsVars, versionVars, scanVars, mailFiles, mailLink, mailComposed,
                   smtpCalls, mailSent, pubVars>>

\* lines 119-140: the message with its subject, body and attachments
MailCompose ==
    /\ mailPc = "compose"
    /\ mailComposed' = TRUE
    /\ mailLog' = Append(mailLog, "Sending report email")
    /\ mailPc' = "connect"
    /\ UNCHANGED <<securitySummary, appVars, fsVars, versionVars, scanVars, mailFiles, mailLink, smtpCalls,
                   mailSent, mailExit, pubVars>>

\* The four transport calls inside the try block, in order.
SmtpSteps == <<"connect", "starttls", "login", "send_message">>

\* One transport call: it succeeds, or it raises and the except clause prints
\* the failure; after the try statement the script ends, with exit code 0.
SmtpStep(i) ==
    /\ mailPc = SmtpSteps[i]
    /\ smtpCalls' = Append(smtpCalls, SmtpSteps[i])
    /\ \E ok \in BOOLEAN :
          IF ok
          THEN IF i < Len(SmtpSteps)
               THEN /\ mailPc' = SmtpSteps[i + 1]
                    /\ UNCHANGED <<mailSent, mailLog>>
               ELSE /\ mailSent' = TRUE
                    /\ mailLog' = Append(mailLog, "Email sent successfully")
                    /\ mailPc' = "end"
          ELSE /\ mailLog' = Append(mailLog, "Failed to send email")
               /\ mailPc' = "end"
               /\ UNCHANGED mailSent
    /\ UNCHANGED <<securitySummary, appVars, fsVars, versionVars, scanVars, mailFiles, mailLink, mailComposed,
                   mailExit, pubVars>>

SmtpConnect == SmtpStep(1)

SmtpStartTls == SmtpStep(2)

SmtpLogin == SmtpStep(3)

SmtpSend == SmtpStep(4)

\* The script runs off its end: exit code 0.
MailEnd ==
    /\ mailPc = "end"
    /\ mailExit' = 0
    /\ mailPc' = "exited"
    /\ UNCHANGED <<securitySummary, appVars, fsVars, versionVars, scanVars, mailFiles, mailLink, mailComposed,
                   smtpCalls, mailSent, mailLog, pubVars>>

MailIdle ==
    /\ mailPc = "start"
    /\ mailFiles = {}
    /\ mailLink = "none"
    /\ mailComposed = FALSE
    /\ smtpCalls = <<>>
    /\ mailSent = FALSE
    /\ mailLog = <<>>
    /\ mailExit = -1

(***************************************************************************)
(* Publish client (publish_report_confluence.py) and the wiki it talks to. *)
(* A page title is CONFLUENCE_TITLE (bare) or CONFLUENCE_TITLE v<version>. *)
(* The wiki keeps titles unique in the space, answers a title search with  *)
(* the pages of exactly that title, accepts an update that carries the     *)
(* current version number plus one, and rejects a new attachment whose     *)
(* file name the page already has.                                         *)
(***************************************************************************)
BareTitle == [bare |-> TRUE, v |-> 0]

\* f"{CONFLUENCE_TITLE} v{version}"
VersionedTitle(version) == [bare |-> FALSE, v |-> version]

NoName == FixedName("", "")

\* The run of the publisher that is executing (or was the last to execute).
ThisRun == pubRuns[Len(pubRuns)]

NewRun == [version |-> 0, page_id |-> 0, crash |-> "none", faults |-> 0, uploaded |-> {}]

\* page_id is an unbound name until line 189 or 197 assigns it (0 here).
PageIdBound == ThisRun.page_id # 0

SetRun(field, value) == [pubRuns EXCEPT ![Len(pubRuns)][field] = value]

\* print(...)
LogLine(line, n, name) ==
    Append(pubLog, [run |-> Len(pubRuns), line |-> line, n |-> n, name |-> name])

\* A request sent to the wiki.
\* A request that carries a version number (the update), or is answered with
\* one (the read of a page; 0 when the read fails).
CallN(op, page, number) ==
    Append(wikiCalls, [run |-> Len(pubRuns), op |-> op, page |-> page, number |-> number])

Call(op, page) == CallN(op, page, 0)

\* (a variant that sends the version number it read, not the next one)
UpdateNumber_Stale == current_version

\* "version": {"number": current_version + 1}
UpdateNumber == current_version + 1

\* What the network and the wiki can answer to a request: the wiki's own
\* answer, or (while the fault budget lasts) an error status or no connection.
Answers == IF wikiFaults < MaxFaults THEN {"ok", "http error", "connection error"} ELSE {"ok"}

CountFault(answer) == IF answer = "ok" THEN wikiFaults ELSE wikiFaults + 1

RunFaults(runs, answer) ==
    IF answer = "ok" THEN runs
    ELSE [runs EXCEPT ![Len(runs)].faults = @ + 1]

\* An exception leaves __main__ uncaught: the traceback is printed, exit code 1.
Crashed(runs, exc) == [runs EXCEPT ![Len(runs)].crash = exc]

\* The files the upload loop of __main__ passes to upload_attachment.
Uploadable == {name \in ListDir : name.ext \in {"html", "pdf"}}

\* The wiki: ids of the pages with a title, in results order.
PagesTitled(title) == {id \in 1..Len(pages) : pages[id].title = title}

FirstResult(ids) == CHOOSE id \in ids : \A other \in ids : id <= other

HasAttachment(page, name) == \E a \in attachments : a.page = page /\ a.name = name

\* __main__, lines 165-185: read_version(), extract_test_summary(),
\* extract_security_summary() and the page body.
PubStart ==
    /\ pubPc = "start"
    /\ pubVersion' = PubReadVersion(versionFile)
    /\ IF PubReadVersion(versionFile).kind = "ValueError"
       THEN /\ pubRuns' = Crashed(pubRuns, "ValueError")
            /\ pubPc' = "crashed"
            /\ UNCHANGED <<testSummary, securitySummary>>
       ELSE /\ pubRuns' = SetRun("version", PubReadVersion(versionFile).n)
            /\ testSummary' = ExtractTestSummaryOf(pytestLog)
            /\ securitySummary' = ExtractSecuritySummaryOf(secFiles)
            /\ pubPc' = "create"
    /\ UNCHANGED <<appVars, fsVars, genRead, genOut, mailVersion, scanPc, summary, htmlStatus,
                   mailStatus, mailVars, pages, attachments, wikiCalls, wikiFaults,
                   pubLog, current_version>>

\* create_confluence_page(f"{CONFLUENCE_TITLE} v{version}", html_body) inside
\* the try of line 188: an error status raises HTTPError, which the except
\* clause takes for "the page exists"; a connection error is not an HTTPError.
PubCreate ==
    /\ pubPc = "create"
    /\ wikiCalls' = Call("POST content", 0)
    /\ \E answer \in Answers :
          /\ wikiFaults' = CountFault(answer)
          /\ IF answer = "connection error"
             THEN /\ pubRuns' = Crashed(RunFaults(pubRuns, answer), "ConnectionError")
                  /\ pubPc' = "crashed"
                  /\ UNCHANGED <<pages, pubLog>>
             ELSE IF answer = "http error"
                     \/ PagesTitled(VersionedTitle(ThisRun.version)) # {}
             THEN /\ pubRuns' = RunFaults(pubRuns, answer)
                  /\ pubLog' = LogLine("Page may already exist, attempting update", 0, NoName)
                  /\ pubPc' = "search"
                  /\ UNCHANGED pages
             ELSE /\ pages' = Append(pages, [title |-> VersionedTitle(ThisRun.version),
                                             number |-> 1,
                                             body |-> ThisRun.version])
                  /\ pubRuns' = SetRun("page_id", Len(pages) + 1)
                  /\ pubLog' = LogLine("Created new Confluence page", Len(pages) + 1, NoName)
                  /\ pubPc' = "upload"
    /\ UNCHANGED <<securitySummary, appVars, fsVars, versionVars, scanVars, mailVars, attachments, current_version>>

\* Lines 194-200: the search for the title CONFLUENCE_TITLE.
PubSearch ==
    /\ pubPc = "search"
    /\ wikiCalls' = Call("GET content?title", 0)
    /\ \E answer \in Answers :
          /\ wikiFaults' = CountFault(answer)
          /\ IF answer = "connection error"
             THEN /\ pubRuns' = Crashed(RunFaults(pubRuns, answer), "ConnectionError")
                  /\ pubPc' = "crashed"
                  /\ UNCHANGED pubLog
             ELSE IF answer = "ok" /\ PagesTitled(BareTitle) # {}
             THEN /\ pubRuns' = SetRun("page_id", FirstResult(PagesTitled(BareTitle)))
                  /\ pubPc' = "get version"
                  /\ UNCHANGED pubLog
             ELSE /\ pubRuns' = RunFaults(pubRuns, answer)
                  /\ pubLog' = LogLine("Unable to find or update Confluence page", 0, NoName)
                  /\ pubPc' = "upload"
    /\ UNCHANGED <<securitySummary, appVars, fsVars, versionVars, scanVars, mailVars, pages, attachments,
                   current_version>>

\* update_confluence_page, lines 141-145: the read of the remote version.
\* raise_for_status() raises inside the except clause of __main__, uncaught.
PubGetVersion ==
    /\ pubPc = "get version"
    /\ \E answer \in Answers :
          /\ wikiFaults' = CountFault(answer)
          /\ wikiCalls' = CallN("GET content/id", ThisRun.page_id,
                                IF answer = "ok" THEN pages[ThisRun.page_id].number ELSE 0)
          /\ IF answer = "ok"
             THEN /\ current_version' = pages[ThisRun.page_id].number
                  /\ pubPc' = "put"
                  /\ UNCHANGED pubRuns
             ELSE /\ pubRuns' = Crashed(RunFaults(pubRuns, answer),
                                        IF answer = "http error" THEN "HTTPError"
                                        ELSE "ConnectionError")
                  /\ pubPc' = "crashed"
                  /\ UNCHANGED current_version
    /\ UNCHANGED <<securitySummary, appVars, fsVars, versionVars, scanVars, mailVars, pages, attachments, pubLog>>

\* update_confluence_page, lines 147-158: the update with current_version + 1
\* and the title CONFLUENCE_TITLE.  The wiki answers 409 to a stale version.
PubPut ==
    /\ pubPc = "put"
    /\ wikiCalls' = CallN("PUT content/id", ThisRun.page_id, UpdateNumber)
    /\ \E answer \in Answers :
          /\ wikiFaults' = CountFault(answer)
          /\ IF answer = "ok"
                /\ UpdateNumber = pages[ThisRun.page_id].number + 1
                /\ PagesTitled(BareTitle) \subseteq {ThisRun.page_id}
             THEN /\ pages' = [pages EXCEPT ![ThisRun.page_id] =
                                  [title |-> BareTitle,
                                   number |-> UpdateNumber,
                                   body |-> ThisRun.version]]
                  /\ pubLog' = LogLine("Updated Confluence page", current_version + 1, NoName)
                  /\ pubPc' = "upload"
                  /\ UNCHANGED pubRuns
             ELSE /\ pubRuns' = Crashed(RunFaults(pubRuns, answer),
                                        IF answer = "connection error" THEN "ConnectionError"
                                        ELSE "HTTPError")
                  /\ pubPc' = "crashed"
                  /\ UNCHANGED <<pages, pubLog>>
    /\ UNCHANGED <<securitySummary, appVars, fsVars, versionVars, scanVars, mailVars, attachments, current_version>>

\* One round of the loop of lines 203-205: upload_attachment(page_id, file) for
\* a file os.listdir has not yielded yet (its order is arbitrary).  Evaluating
\* page_id raises NameError when neither line 189 nor line 197 assigned it.
\* upload_attachment sends one POST and prints the outcome.
PubUpload ==
    /\ pubPc = "upload"
    /\ Uploadable \ ThisRun.uploaded # {}
    /\ IF ~PageIdBound
       THEN /\ pubRuns' = Crashed(pubRuns, "NameError")
            /\ pubPc' = "crashed"
            /\ UNCHANGED <<attachments, wikiCalls, wikiFaults, pubLog>>
       ELSE \E name \in Uploadable \ ThisRun.uploaded, answer \in Answers :
               /\ wikiCalls' = Call("POST content/id/child/attachment", ThisRun.page_id)
               /\ wikiFaults' = CountFault(answer)
               /\ IF answer = "connection error"
                  THEN /\ pubRuns' = Crashed(RunFaults(pubRuns, answer), "ConnectionError")
                       /\ pubPc' = "crashed"
                       /\ UNCHANGED <<attachments, pubLog>>
                  ELSE /\ pubRuns' = [RunFaults(pubRuns, answer) EXCEPT
                                         ![Len(pubRuns)].uploaded = @ \cup {name}]
                       /\ pubPc' = "upload"
                       /\ IF answer = "http error"
                          THEN /\ pubLog' = LogLine("Failed to upload", 500, name)
                               /\ UNCHANGED attachments
                          ELSE IF HasAttachment(ThisRun.page_id, name)
                          THEN /\ pubLog' = LogLine("Failed to upload", 400, name)
                               /\ UNCHANGED attachments
                          ELSE /\ attachments' = attachments \cup
                                     {[page |-> ThisRun.page_id, name |-> name,
                                       data |-> Len(pubRuns)]}
                               /\ pubLog' = LogLine("Uploaded", 200, name)
    /\ UNCHANGED <<securitySummary, appVars, fsVars, versionVars, scanVars, mailVars, pages, current_version>>

\* Line 207, after the loop.
PubFinish ==
    /\ pubPc = "upload"
    /\ Uploadable \ ThisRun.uploaded = {}
    /\ pubLog' = LogLine("Report successfully published to Confluence", 0, NoName)
    /\ pubPc' = "done"
    /\ UNCHANGED <<securitySummary, appVars, fsVars, versionVars, scanVars, mailVars, pages, attachments, wikiCalls,
                   wikiFaults, pubRuns, current_version>>

\* The pipeline starts the script again.
PubRestart ==
    /\ pubPc \in {"done", "crashed"}
    /\ Len(pubRuns) < MaxPubRuns
    /\ pubRuns' = Append(pubRuns, NewRun)
    /\ pubPc' = "start"
    /\ current_version' = 0
    /\ UNCHANGED <<securitySummary, appVars, fsVars, versionVars, scanVars, mailVars, pages, attachments, wikiCalls,
                   wikiFaults, pubLog>>

\* The generator stage of the pipeline runs, once, between two publisher runs.
PipelineGenerate ==
    /\ pubPc \in {"done", "crashed"}
    /\ pubVersion.kind = "ValueError" \/ pubVersion.n = GenReadVersion(versionFile)
    /\ IncrementVersion

PubIdle ==
    /\ pubPc = "start"
    /\ pubRuns = <<NewRun>>
    /\ current_version = 0
    /\ pubLog = <<>>
    /\ wikiCalls = <<>>
    /\ wikiFaults = 0
    /\ attachments = {}

(***************************************************************************)
(* Login app (app/app.py).  Form fields and user names are sequences of    *)
(* characters; one browser session talks to the app.                       *)
(***************************************************************************)
Alice == <<"a", "l", "i", "c", "e">>

Admin == <<"a", "d", "m", "i", "n">>

Bob == <<"b", "o", "b">>

Password123 == <<"p", "a", "s", "s", "w", "o", "r", "d", "1", "2", "3">>

AdminPassword == <<"A", "d", "m", "i", "n", "@", "1", "2", "3", "4", "5">>

\* generate_password_hash(p): the hash stands for the password it was made of.
GeneratePasswordHash(p) == [of |-> p]

\* check_password_hash(pw_hash, password)
CheckPasswordHash(pw_hash, password) == pw_hash = GeneratePasswordHash(password)

\* The in-memory user store.
USERS ==
    [u \in {Alice, Admin} |->
        IF u = Alice THEN GeneratePasswordHash(Password123)
        ELSE GeneratePasswordHash(AdminPassword)]

\* The characters re.sub(r"[<>\"']", "", ...) removes.
MarkupChars == {"<", ">", "\"", "'"}

IsKept(c) == c \notin MarkupChars

\* sanitize_input(value): strip, then drop the markup characters; "" for an
\* empty value.
SanitizeInput(value) ==
    IF value # <<>> THEN SelectSeq(Strip(value), IsKept) ELSE <<>>

\* The value session.get("user") returns when the key is not in the session.
NoUser == <<"None">>

\* The session after session.clear(), and of a browser that has no cookie.
EmptySession == [user |-> NoUser, permanent |-> FALSE]

\* is_authenticated(): bool(session.get("user"))
IsAuthenticated == session.user # NoUser /\ session.user # <<>>

Request(method, path, username, password) ==
    [method |-> method, path |-> path, username |-> username, password |-> password]

Get(path) == Request("GET", path, <<>>, <<>>)

Redirect(endpoint, message) == [kind |-> "redirect", to |-> endpoint, flash |-> message]

RenderTemplate(template, message, username) ==
    [kind |-> "render", to |-> template, flash |-> message, username |-> username]

\* The user names and the passwords a browser submits.
FormUsernames ==
    {Alice, Admin, Bob, <<>>, <<" ">> \o Alice, <<"<">> \o Admin \o <<">">>}

FormPasswords ==
    {Password123, AdminPassword, <<>>, <<"x">>, Password123 \o <<" ">>,
     <<"\"">> \o Password123 \o <<"\"">>,
     <<"A", "d", "m", "i", "n", "'", "@", "1", "2", "3", "4", "5">>}

\* index(): GET /
Index ==
    /\ request' = Get("/")
    /\ response' = IF IsAuthenticated THEN Redirect("dashboard", "")
                   ELSE Redirect("login", "")
    /\ UNCHANGED <<securitySummary, session, fsVars, versionVars, scanVars, mailVars, pubVars>>

\* login(): GET /login
LoginForm ==
    /\ request' = Get("/login")
    /\ response' = RenderTemplate("login.html", "", NoUser)
    /\ UNCHANGED <<securitySummary, session, fsVars, versionVars, scanVars, mailVars, pubVars>>

\* login(): POST /login
Login ==
    /\ \E u \in FormUsernames, p \in FormPasswords :
          LET username == SanitizeInput(u)
              password == SanitizeInput(p)
          IN  /\ request' = Request("POST", "/login", u, p)
              /\ IF username \in DOMAIN USERS
                    /\ CheckPasswordHash(USERS[username], password)
                 THEN /\ session' = [user |-> username, permanent |-> TRUE]
                      /\ response' = Redirect("dashboard", "Login successful!")
                 ELSE /\ response' = RenderTemplate("login.html",
                                        "Invalid username or password", NoUser)
                      /\ UNCHANGED session
    /\ UNCHANGED <<securitySummary, fsVars, versionVars, scanVars, mailVars, pubVars>>

\* dashboard(): GET /dashboard, through require_auth() when not logged in.
Dashboard ==
    /\ request' = Get("/dashboard")
    /\ response' = IF ~IsAuthenticated
                   THEN Redirect("login", "Please log in to continue.")
                   ELSE RenderTemplate("dashboard.html", "", session.user)
    /\ UNCHANGED <<securitySummary, session, fsVars, versionVars, scanVars, mailVars, pubVars>>

\* logout(): GET /logout
Logout ==
    /\ request' = Get("/logout")
    /\ session' = EmptySession
    /\ response' = Redirect("login", "You have been logged out successfully.")
    /\ UNCHANGED <<securitySummary, fsVars, versionVars, scanVars, mailVars, pubVars>>

\* health(): GET /health
Health ==
    /\ request' = Get("/health")
    /\ response' = [kind |-> "json", to |-> "ok", flash |-> ""]
    /\ UNCHANGED <<securitySummary, session, fsVars, versionVars, scanVars, mailVars, pubVars>>

NoRequest == Request("", "", <<>>, <<>>)

NoResponse == [kind |-> "none", to |-> "", flash |-> ""]

AppIdle ==
    /\ session = EmptySession
    /\ request = NoRequest
    /\ response = NoResponse

(***************************************************************************)
(* Specifications.                                                         *)
(***************************************************************************)
NoResult == [kind |-> "none", n |-> 0]

NoText == [kind |-> "none", s |-> <<>>]

VersionIdle ==
    /\ genRead = 0
    /\ genOut = <<>>
    /\ pubVersion = NoResult
    /\ mailVersion = NoText

VersionFiles == {Absent} \cup {File(t) : t \in SeqsUpTo(VersionChars, MaxTextLen)}

\* The version store under every initial content of version.txt.
InitVersion ==
    /\ versionFile \in VersionFiles
    /\ pytestLog = Absent
    /\ secFiles = [f \in SecNames |-> Absent]
    /\ reportDir = {}
    /\ VersionIdle
    /\ ScanIdle
    /\ MailIdle
    /\ PubIdle
    /\ AppIdle
    /\ pages = <<>>

NextVersion == IncrementVersion \/ PubReadVersionCall \/ DetectVersionCall

SpecVersion == InitVersion /\ [][NextVersion]_vars

\* The pytest logs: every token sequence up to MaxLogLen and every summary line.
PytestLogs ==
    {Absent}
    \cup {File(t) : t \in SeqsUpTo(LogTokens, MaxLogLen)}
    \cup {File(SummaryLine(a, b, c, d)) : a \in LogCounts, b \in LogCounts,
                                           c \in LogCounts, d \in LogCounts}

SecReports == {Absent} \cup {File(t) : t \in SeqsUpTo(SecTokens, MaxSecLen)}

\* The scanner under every pytest log without scanner reports, and under every
\* combination of scanner reports with no, an empty and the scenario log.
InitScan ==
    /\ versionFile = File(<<"2">>)
    /\ \/ /\ pytestLog \in PytestLogs
          /\ secFiles = [f \in SecNames |-> Absent]
       \/ /\ pytestLog \in {Absent, File(<<>>), File(ScenarioLog)}
          /\ secFiles \in [SecNames -> SecReports]
    /\ reportDir = {}
    /\ VersionIdle
    /\ ScanIdle
    /\ MailIdle
    /\ PubIdle
    /\ AppIdle
    /\ pages = <<>>

NextScan == ExtractSummary \/ GenerateHtml \/ ExtractTestSummary \/ DetectStatus

SpecScan == InitScan /\ [][NextScan]_vars

\* The notifier under the artifact directories built from these files.
MailDirs ==
    SUBSET {ReportName(2, "html"), ReportName(2, "pdf"), FixedName("report", "html"),
            FixedName("notes", "md")}

InitMail ==
    /\ versionFile \in {Absent, File(<<"2">>)}
    /\ pytestLog \in {Absent, File(ScenarioLog)}
    /\ secFiles \in {[f \in SecNames |-> Absent],
                     [f \in SecNames |-> IF f = "bandit_report.html" THEN File(<<>>) ELSE Absent]}
    /\ reportDir \in MailDirs
    /\ VersionIdle
    /\ ScanIdle
    /\ MailIdle
    /\ PubIdle
    /\ AppIdle
    /\ pages = <<>>

NextMail ==
    \/ MailStart
    \/ MailFetchLink
    \/ MailCheckFiles
    \/ MailCompose
    \/ SmtpConnect
    \/ SmtpStartTls
    \/ SmtpLogin
    \/ SmtpSend
    \/ MailEnd

SpecMail == InitMail /\ [][NextMail]_vars

\* A page the space holds before the first run.
OldPage(title) == [title |-> title, number |-> 1, body |-> 0]

\* The publisher against an empty space, a space that holds a page with the
\* bare title, one that holds the page of version 2, and one that holds both.
InitPublish ==
    /\ versionFile \in {Absent, File(<<"2">>), File(<<"x">>)}
    /\ pytestLog = File(ScenarioLog)
    /\ secFiles = [f \in SecNames |-> Absent]
    /\ reportDir \in {{}, {ReportName(2, "html")}, {ReportName(2, "html"), ReportName(2, "pdf")}}
    /\ pages \in {<<>>, <<OldPage(BareTitle)>>, <<OldPage(VersionedTitle(2))>>,
                  <<OldPage(BareTitle), OldPage(VersionedTitle(2))>>}
    /\ VersionIdle
    /\ ScanIdle
    /\ MailIdle
    /\ PubIdle
    /\ AppIdle

NextPublish ==
    \/ PubStart
    \/ PubCreate
    \/ PubSearch
    \/ PubGetVersion
    \/ PubPut
    \/ PubUpload
    \/ PubFinish
    \/ PubRestart
    \/ PipelineGenerate

SpecPublish == InitPublish /\ [][NextPublish]_vars

\* The login app serving one browser that starts without a session.
InitLogin ==
    /\ versionFile = Absent
    /\ pytestLog = Absent
    /\ secFiles = [f \in SecNames |-> Absent]
    /\ reportDir = {}
    /\ VersionIdle
    /\ ScanIdle
    /\ MailIdle
    /\ PubIdle
    /\ AppIdle
    /\ pages = <<>>

NextLogin == Index \/ LoginForm \/ Login \/ Dashboard \/ Logout \/ Health

SpecLogin == InitLogin /\ [][NextLogin]_vars

RECURSIVE Repeat(_, _)
Repeat(w, n) == IF n = 0 THEN <<>> ELSE <<w>> \o Repeat(w, n - 1)

FindingCounts == 0..MaxFindings

\* A scanner report in HTML with a findings of one severity and b of another.
FindingsReport(first, a, second, b) ==
    File(<<"<html>">> \o Repeat(first, a) \o Repeat(second, b))

TrivyReports ==
    {Absent, File(<<>>), File(<<"<html>", "CRITICAL", "high", "Medium">>)}
    \cup {FindingsReport("Critical", c, "High", h) : c \in FindingCounts, h \in FindingCounts}

ZapReports ==
    {Absent, File(<<>>), File(<<"<html>", "Critical", "high", "Medium">>)}
    \cup {FindingsReport("High", h, "Medium", m) : h \in FindingCounts, m \in FindingCounts}

\* The security summary under every combination of these scanner reports.
InitSecurity ==
    /\ versionFile = File(<<"2">>)
    /\ pytestLog = Absent
    /\ \E bandit \in {Absent, File(<<"<tr class=issue>", "High">>)},
          safety \in {Absent, File(<<"|", "High">>)},
          trivy \in TrivyReports, zap \in ZapReports :
          secFiles = [f \in PubSecNames |->
                         CASE f = "bandit_report.html" -> bandit
                           [] f = "dependency_vuln.txt" -> safety
                           [] f = "trivy_report.html" -> trivy
                           [] OTHER -> zap]
    /\ reportDir = {}
    /\ VersionIdle
    /\ ScanIdle
    /\ MailIdle
    /\ PubIdle
    /\ AppIdle
    /\ pages = <<>>

NextSecurity == ExtractSecuritySummary

SpecSecurity == InitSecurity /\ [][NextSecurity]_vars

(***************************************************************************)
(* Version store: claims.                                                  *)
(***************************************************************************)
HoldsInt(f) == f.exists /\ ParseInt(f.text).ok

Held(f) == ParseInt(f.text).val

IsIncrementStep == Len(genOut') = Len(genOut) + 1

Last(s) == s[Len(s)]

\* What one increment_version() step must do.
IncrementStepOk ==
    /\ (~versionFile.exists) => (Last(genOut') = 2)
    /\ HoldsInt(versionFile) => (Last(genOut') = Held(versionFile) + 1)
    /\ versionFile' = File(ToStr(Last(genOut')))
    /\ HoldsInt(versionFile')
    /\ Held(versionFile') = Last(genOut')

\* The persisted counter is never deleted and never decreases.
CounterMonotone ==
    /\ versionFile.exists => versionFile'.exists
    /\ HoldsInt(versionFile) =>
           (HoldsInt(versionFile') /\ Held(versionFile') >= Held(versionFile))

\* C5: every increment_version() call returns the previously persisted counter
\* plus one (2 on a fresh store) and persists it, successive calls return n+1
\* and then n+2, and the persisted counter never decreases and is never deleted.
C5_IncrementPlusOne ==
    /\ [](\A i \in 1..(Len(genOut) - 1) : genOut[i + 1] = genOut[i] + 1)
    /\ [][(IsIncrementStep => IncrementStepOk) /\ CounterMonotone]_vars

\* Two successive calls on a fresh store have returned 2 and then 3.
C5_Witness == Len(genOut) >= 2 /\ genOut[1] = 2 /\ genOut[2] = 3 /\ Held(versionFile) = 3

\* What the version-store contract says a read returns.
ContractRead(f) == IF HoldsInt(f) THEN Held(f) ELSE 1

\* C6: every reader of version.txt (read_version of the generator, read_version
\* of the publisher, detect_version of the notifier) returns the persisted
\* integer, and 1 when the file is absent or malformed, without raising.
C6_EveryReaderDefaultsToOne ==
    [][/\ IsIncrementStep => (genRead' = ContractRead(versionFile))
       /\ (pubVersion' # pubVersion) =>
              (pubVersion' = [kind |-> "int", n |-> ContractRead(versionFile)])
       /\ (mailVersion' # mailVersion) =>
              (/\ ParseInt(mailVersion'.s).ok
               /\ ParseInt(mailVersion'.s).val = ContractRead(versionFile))]_vars

(***************************************************************************)
(* Report scanner: claims.                                                 *)
(***************************************************************************)
Scanned == scanPc # "extract"

LogText == IF pytestLog.exists THEN pytestLog.text ELSE <<>>

\* The first integer that directly precedes one of the keywords kws, 0 without one.
FirstPreceding(text, kws) ==
    LET at == {i \in 1..(Len(text) - 1) :
                  text[i].k = "num" /\ text[i + 1].k = "word" /\ text[i + 1].w \in kws}
    IN  IF at = {} THEN 0 ELSE text[CHOOSE i \in at : \A j \in at : i <= j].n

Abs(x) == IF x < 0 THEN 0 - x ELSE x

SummaryTotal == summary.passed + summary.failed + summary.errors + summary.skipped

\* The status the rule "FAIL iff failed > 0 or errors > 0" gives.
RuleStatus(failed, errors) == IF failed > 0 \/ errors > 0 THEN "FAIL" ELSE "PASS"

\* C3: wherever a status is derived (the badge of generate_html, the status of
\* extract_test_summary, the subject line's detect_status), it is FAIL if and
\* only if the failed or the errors counter of the pytest log is positive.
C3_StatusIffFailedOrErrors ==
    /\ htmlStatus # "none" => htmlStatus = RuleStatus(summary.failed, summary.errors)
    /\ testSummary.status # "none" =>
           testSummary.status = RuleStatus(testSummary.failed, testSummary.errors)
    /\ (mailStatus # "none" /\ pytestLog.exists) =>
           mailStatus = RuleStatus(summary.failed, summary.errors)

\* C4: the counters of extract_summary are the first integers preceding their
\* keywords (0 without one), the pass rate lies in [0, 100], is 0 for a total
\* of 0 and otherwise passed / total * 100 rounded to the nearest tenth (rates
\* are in tenths of a percent); the scenario log gives 12, 1, 0, 2, 80.0, FAIL.
C4_PassRate ==
    Scanned =>
        /\ summary.passed = FirstPreceding(LogText, {"passed"})
        /\ summary.failed = FirstPreceding(LogText, {"failed"})
        /\ summary.errors = FirstPreceding(LogText, {"error", "errors"})
        /\ summary.skipped = FirstPreceding(LogText, {"skipped"})
        /\ summary.rate >= 0
        /\ summary.rate <= 1000
        /\ (SummaryTotal = 0) => (summary.rate = 0)
        /\ 2 * Abs(summary.rate * SummaryTotal - 1000 * summary.passed) <= SummaryTotal
        /\ (pytestLog = File(ScenarioLog)) =>
               /\ summary.passed = 12
               /\ summary.failed = 1
               /\ summary.errors = 0
               /\ summary.skipped = 2
               /\ summary.rate = 800
               /\ htmlStatus \in {"none", "FAIL"}

\* The scenario log has been scanned and rendered.
C4_Witness ==
    /\ pytestLog = File(ScenarioLog)
    /\ summary.passed = 12
    /\ summary.rate = 800
    /\ htmlStatus = "FAIL"

\* The metric extract_summary derives from a scanner report, and its marker.
MetricOf(f) ==
    CASE f = "bandit_report.html" -> summary.bandit_findings
      [] f = "dependency_vuln.txt" -> summary.dep_vuln
      [] f = "trivy_report.txt" -> summary.trivy_high
      [] f = "zap_dast_report.html" -> summary.zap_high

MarkerOf(f) ==
    CASE f = "bandit_report.html" -> "<tr class=issue>"
      [] f = "dependency_vuln.txt" -> "|"
      [] f = "trivy_report.txt" -> "High"
      [] f = "zap_dast_report.html" -> "High"

\* C10: extract_summary never raises; the metrics of an absent file are zero
\* (all of them when every file is absent) and the metrics of a present file
\* are those of its own text, whatever other files are absent.
C10_MissingInputDefaults ==
    Scanned =>
        /\ (~pytestLog.exists) =>
               /\ summary.passed = 0
               /\ summary.failed = 0
               /\ summary.errors = 0
               /\ summary.skipped = 0
               /\ summary.rate = 0
        /\ pytestLog.exists =>
               /\ summary.passed = FirstPreceding(pytestLog.text, {"passed"})
               /\ summary.failed = FirstPreceding(pytestLog.text, {"failed"})
               /\ summary.errors = FirstPreceding(pytestLog.text, {"error", "errors"})
               /\ summary.skipped = FirstPreceding(pytestLog.text, {"skipped"})
        /\ \A f \in SecNames :
               /\ (~secFiles[f].exists) => (MetricOf(f) = 0)
               /\ secFiles[f].exists =>
                      (MetricOf(f) = Cardinality({i \in 1..Len(secFiles[f].text) :
                                                     secFiles[f].text[i] = MarkerOf(f)}))

\* The pytest log and the Trivy report are absent, the ZAP report is present
\* with one High alert, and the summary has been extracted.
C10_Witness ==
    /\ Scanned
    /\ ~pytestLog.exists
    /\ ~secFiles["trivy_report.txt"].exists
    /\ secFiles["zap_dast_report.html"] = File(<<"High">>)
    /\ summary.zap_high = 1
    /\ summary.trivy_high = 0
    /\ summary.passed = 0

(***************************************************************************)
(* Notifier: claims.                                                       *)
(***************************************************************************)
Printed(log, line) == \E i \in 1..Len(log) : log[i] = line

FilesKnown == mailPc # "start"

\* C7: with zero report files to attach the notifier prints a message and
\* exits non-zero before a message is composed or the mail transport is
\* called; with at least one report file it composes the message and attempts
\* the send.
C7_NoFilesNoSend ==
    /\ (FilesKnown /\ ListDir = {}) => (mailFiles = {})
    /\ (FilesKnown /\ mailFiles = {}) =>
           /\ ~mailComposed
           /\ smtpCalls = <<>>
           /\ ~mailSent
           /\ mailPc \in {"link", "check", "exited"}
    /\ (mailPc = "exited" /\ mailFiles = {}) =>
           /\ mailExit = 1
           /\ Printed(mailLog, "No report files found to attach")
    /\ (mailPc = "exited" /\ mailFiles # {}) =>
           /\ mailComposed
           /\ smtpCalls # <<>>
           /\ smtpCalls[1] = "connect"

\* The notifier has exited with code 1 on a directory that holds files, none
\* of them a report file.
C7_Witness ==
    /\ mailPc = "exited"
    /\ ListDir # {}
    /\ mailFiles = {}
    /\ mailExit = 1
    /\ smtpCalls = <<>>

\* C8: a mail transport error is caught and logged and makes the notifier end
\* with a non-zero exit code; the exit code is 0 only when the message was sent.
C8_TransportErrorExitsNonZero ==
    (mailPc = "exited") =>
        /\ (mailExit = 0) => mailSent
        /\ Printed(mailLog, "Failed to send email") => (mailExit # 0)

(***************************************************************************)
(* Publish client: claims.                                                 *)
(***************************************************************************)
RunFinished(r) == r < Len(pubRuns) \/ (r = Len(pubRuns) /\ pubPc \in {"done", "crashed"})

\* The lines run r printed about its page, and the remote version number the
\* page had when run r was done with it (1 when created, n when updated to n).
PageLines(r) ==
    {i \in 1..Len(pubLog) :
        /\ pubLog[i].run = r
        /\ pubLog[i].line \in {"Created new Confluence page", "Updated Confluence page"}}

RemoteVersionAfter(r) ==
    LET i == CHOOSE j \in PageLines(r) : TRUE
    IN  IF pubLog[i].line = "Updated Confluence page" THEN pubLog[i].n ELSE 1

\* C1: when the create-or-update flow runs twice in sequence with the same
\* title and version and no request fails, the second run does not end in an
\* error, references the page id of the first run, and updates that page to a
\* remote version greater than the one it had after the first run.
C1_PublishIdempotentOnTitle ==
    \A r \in 1..(Len(pubRuns) - 1) :
        (/\ RunFinished(r + 1)
         /\ pubRuns[r].version = pubRuns[r + 1].version
         /\ pubRuns[r].faults = 0
         /\ pubRuns[r + 1].faults = 0
         /\ pubRuns[r].crash = "none"
         /\ pubRuns[r].page_id # 0)
        => /\ pubRuns[r + 1].crash = "none"
           /\ pubRuns[r + 1].page_id = pubRuns[r].page_id
           /\ PageLines(r) # {}
           /\ PageLines(r + 1) # {}
           /\ RemoteVersionAfter(r + 1) > RemoteVersionAfter(r)

\* C2: uploading a file name a page already has replaces that attachment: the
\* page never has two attachments of one name, no upload is rejected because
\* the name exists (status 400), and the attachment holds what the last run
\* that handed the file to upload_attachment sent.
C2_AttachmentUpsertByName ==
    /\ \A a \in attachments, b \in attachments :
           (a.page = b.page /\ a.name = b.name) => (a = b)
    /\ \A i \in 1..Len(pubLog) :
           (pubLog[i].line = "Failed to upload") => (pubLog[i].n # 400)
    /\ \A r \in 1..Len(pubRuns) :
           (pubRuns[r].faults = 0) =>
               \A name \in pubRuns[r].uploaded :
                   \E a \in attachments :
                       /\ a.page = pubRuns[r].page_id
                       /\ a.name = name
                       /\ a.data >= r

\* C9: a run in which one remote step fails does not end with an uncaught
\* exception, and when it has a page id every artifact is still handed to
\* upload_attachment.
C9_FailedStepIsSkipped ==
    \A r \in 1..Len(pubRuns) :
        (pubRuns[r].faults = 1) =>
            /\ pubRuns[r].crash = "none"
            /\ (RunFinished(r) /\ pubRuns[r].page_id # 0) =>
                   (pubRuns[r].uploaded = Uploadable)

\* The requests that are page updates, and the remote writes.
IsUpdate(c) == c.op = "PUT content/id"

IsVersionRead(c) == c.op = "GET content/id"

\* C11: every page update is directly preceded, in the same run, by a read of
\* that page's remote version that was answered, and carries the version read
\* plus one; after a version read that fails the run sends no update.
C11_UpdateFollowsVersionRead ==
    /\ \A i \in 1..Len(wikiCalls) :
           IsUpdate(wikiCalls[i]) =>
               /\ i > 1
               /\ IsVersionRead(wikiCalls[i - 1])
               /\ wikiCalls[i - 1].run = wikiCalls[i].run
               /\ wikiCalls[i - 1].page = wikiCalls[i].page
               /\ wikiCalls[i - 1].number >= 1
               /\ wikiCalls[i].number = wikiCalls[i - 1].number + 1
    /\ \A i \in 1..Len(wikiCalls) :
           (IsVersionRead(wikiCalls[i]) /\ wikiCalls[i].number = 0) =>
               ~\E j \in (i + 1)..Len(wikiCalls) :
                    /\ wikiCalls[j].run = wikiCalls[i].run
                    /\ IsUpdate(wikiCalls[j])

\* Two runs have updated the same page, the second to version number 3.
C11_Witness ==
    \E i \in 1..Len(wikiCalls), j \in 1..Len(wikiCalls) :
        /\ i < j
        /\ IsUpdate(wikiCalls[i])
        /\ IsUpdate(wikiCalls[j])
        /\ wikiCalls[i].page = wikiCalls[j].page
        /\ wikiCalls[j].number = 3
        /\ pages[wikiCalls[j].page].number = 3

\* The request just handled is a POST /login.
IsLoginPost == request'.method = "POST" /\ request'.path = "/login"

\* The session's user becomes set, or changes, in this step.
UserBecomesSet == session'.user # NoUser /\ session'.user # session.user

\* The login just handled was turned down.
LoginFailed == IsLoginPost /\ response'.flash = "Invalid username or password"

C12_Step ==
    /\ session'.user \in {NoUser} \cup DOMAIN USERS
    /\ UserBecomesSet =>
          (IsLoginPost /\ CheckPasswordHash(USERS[session'.user], request'.password))
    /\ LoginFailed => (session' = session)
    /\ (request'.path = "/dashboard") =>
          (IF session.user # NoUser
           THEN response'.kind = "render" /\ response'.to = "dashboard.html"
           ELSE response'.kind = "redirect" /\ response'.to = "login")
    /\ (request'.path = "/logout") => (session'.user = NoUser)

\* C12: over every sequence of requests the session's user is unset or a user
\* name of USERS; it becomes set only by a POST /login whose submitted password
\* matches that user's stored hash; a login that is turned down leaves the
\* session unchanged; /dashboard renders the dashboard when the session's user
\* is set and redirects to the login page otherwise; after /logout the
\* session's user is unset.
C12_SessionFlow == [][C12_Step]_vars

\* The High count a summary line shows: the number in front of the word High,
\* 0 for a line without it (N/A).
ShownHigh(value) ==
    IF \E i \in 2..Len(value.text) : value.text[i] = Word("High")
    THEN value.text[(CHOOSE i \in 2..Len(value.text) : value.text[i] = Word("High")) - 1].n
    ELSE 0

TotalShownHigh ==
    ShownHigh(securitySummary.Container_Trivy) + ShownHigh(securitySummary.DAST_ZAP)

\* C13: the risk level is a function of the High count shown for Trivy plus
\* the High count shown for ZAP alone: Low for 0, Medium for 1 to 4, High for 5
\* or more, whatever the Critical and Medium counts are.
C13_RiskFollowsHighTotal ==
    (securitySummary # NoSecuritySummary) =>
        (securitySummary.Risk_Level =
            (IF TotalShownHigh = 0 THEN "Low"
             ELSE IF TotalShownHigh <= 4 THEN "Medium" ELSE "High"))

=============================================================================
